---------------------------- MODULE Spec2Model ----------------------------
(***************************************************************************)
(* State-machine model of src/mediaPlayer.py: the time-window store, the   *)
(* per-window order record, the scheduler tick, the playback session, the  *)
(* on-demand interrupt/resume protocol and the player boundary.            *)
(*                                                                         *)
(* Python's None is modelled by the empty tuple <<>>, an optional value by *)
(* a sequence of length 0 or 1, a tuple (s, e) by <<s, e>>, a file name by *)
(* the sequence of its characters (the ".mp4" suffix that glob("*.mp4")    *)
(* requires is left implicit) and a text file by its character sequence.   *)
(***************************************************************************)
EXTENDS Integers, Sequences, FiniteSets, TLC

\* ---------------------------------------------------------------- bounds
\* Minutes of the day run over 0..MaxT (1440 minutes in the program).
MaxT == 2
\* Longest time_ranges list the store actions build.
MaxWindows == 2
\* Largest playback offset the main player reports.
MaxPos == 1

Minutes == 0..MaxT

\* ------------------------------------------------------ values and names
None == <<>>
Some(x) == <<x>>

NameA == <<"a">>
NameB == <<"b">>
NameSpB == <<" ", "b">>
\* File names the user can pick in the file dialog of the main window.
FileNames == {NameA, NameB}
\* File names that may lie in a window's folder when it is read.
NameUniverse == {NameA, NameSpB}

\* ------------------------------------------------------------ time tools
Max2(a, b) == IF a > b THEN a ELSE b
Min2(a, b) == IF a < b THEN a ELSE b

\* min_to_hhmm: "HH:MM" as the pair of its two fields.
min_to_hhmm(m) == <<m \div 60, m % 60>>

\* hhmm_to_min: h * 60 + m.
hhmm_to_min(t) == t[1] * 60 + t[2]

\* segment_folder: the folder name, "HH_MM-HH_MM", as its four fields.
segment_folder(s, e) == min_to_hhmm(s) \o min_to_hhmm(e)

AllFolders == {segment_folder(s, e) : s \in Minutes, e \in Minutes}

\* has_overlap, with a mutant that only compares the start times.
has_overlap_startOnly(ranges, ns, ne) ==
    \E i \in 1..Len(ranges) : ranges[i][1] = ns

has_overlap(ranges, ns, ne) ==
    \E i \in 1..Len(ranges) :
        Max2(ranges[i][1], ns) < Min2(ranges[i][2], ne)

\* Python's order on (int, int) tuples.
TupleLeq(x, y) == x[1] < y[1] \/ (x[1] = y[1] /\ x[2] <= y[2])

\* time_ranges.append(seg); time_ranges.sort() on a sorted list.
RECURSIVE AppendAndSort(_, _)
AppendAndSort(ranges, seg) ==
    IF ranges = <<>> THEN <<seg>>
    ELSE IF TupleLeq(Head(ranges), seg)
         THEN <<Head(ranges)>> \o AppendAndSort(Tail(ranges), seg)
         ELSE <<seg>> \o ranges

\* list.remove(seg): drops the first element equal to seg.
RECURSIVE ListRemove(_, _)
ListRemove(ranges, seg) ==
    IF ranges = <<>> THEN <<>>
    ELSE IF Head(ranges) = seg THEN Tail(ranges)
         ELSE <<Head(ranges)>> \o ListRemove(Tail(ranges), seg)

\* -------------------------------------------------- text of order.txt
\* Code points of the characters used, for Python's string order.
CodePoint(c) ==
    CASE c = "\n" -> 10
      [] c = " "  -> 32
      [] c = "a"  -> 97
      [] c = "b"  -> 98

IsSpace(c) == c \in {" ", "\n"}

\* Python's < on strings.
RECURSIVE StrLess(_, _)
StrLess(x, y) ==
    IF y = <<>> THEN FALSE
    ELSE IF x = <<>> THEN TRUE
    ELSE IF Head(x) = Head(y) THEN StrLess(Tail(x), Tail(y))
    ELSE CodePoint(Head(x)) < CodePoint(Head(y))

\* sorted(files.keys())
RECURSIVE SortedNames(_)
SortedNames(S) ==
    IF S = {} THEN <<>>
    ELSE LET m == CHOOSE x \in S : \A y \in S \ {x} : StrLess(x, y)
         IN  <<m>> \o SortedNames(S \ {m})

\* "\n".join(names)
RECURSIVE JoinLines(_)
JoinLines(names) ==
    IF names = <<>> THEN <<>>
    ELSE IF Len(names) = 1 THEN names[1]
    ELSE names[1] \o <<"\n">> \o JoinLines(Tail(names))

\* The text write_order writes: "\n".join(names) + ("\n" if names else "").
OrderText(names) ==
    JoinLines(names) \o (IF names # <<>> THEN <<"\n">> ELSE <<>>)

\* str.splitlines(): the lines between line breaks, no empty last line.
RECURSIVE SplitLinesFrom(_, _)
SplitLinesFrom(text, cur) ==
    IF text = <<>> THEN (IF cur = <<>> THEN <<>> ELSE <<cur>>)
    ELSE IF Head(text) = "\n" THEN <<cur>> \o SplitLinesFrom(Tail(text), <<>>)
    ELSE SplitLinesFrom(Tail(text), Append(cur, Head(text)))

SplitLines(text) == SplitLinesFrom(text, <<>>)

RECURSIVE LStrip(_)
LStrip(s) ==
    IF s = <<>> THEN <<>>
    ELSE IF IsSpace(Head(s)) THEN LStrip(Tail(s)) ELSE s

RECURSIVE RStrip(_)
RStrip(s) ==
    IF s = <<>> THEN <<>>
    ELSE IF IsSpace(s[Len(s)]) THEN RStrip(SubSeq(s, 1, Len(s) - 1)) ELSE s

\* str.strip(): leading and trailing blanks are removed.
StripLine(s) == LStrip(RStrip(s))

\* [line.strip() for line in text.splitlines() if line.strip()]
RECURSIVE StripNonEmpty(_)
StripNonEmpty(lines) ==
    IF lines = <<>> THEN <<>>
    ELSE IF StripLine(Head(lines)) # <<>>
         THEN <<StripLine(Head(lines))>> \o StripNonEmpty(Tail(lines))
         ELSE StripNonEmpty(Tail(lines))

\* The names load_ordered_files reads from an order file (absent: none).
ReadOrderNames(file) ==
    IF file = None THEN <<>> ELSE StripNonEmpty(SplitLines(file[1]))

\* The loop over names of load_ordered_files: a name still in files is
\* appended and popped from files.
RECURSIVE TakeRecorded(_, _)
TakeRecorded(names, files) ==
    IF names = <<>> THEN <<>>
    ELSE IF Head(names) \in files
         THEN <<Head(names)>> \o TakeRecorded(Tail(names), files \ {Head(names)})
         ELSE TakeRecorded(Tail(names), files)

SeqRange(s) == {s[i] : i \in 1..Len(s)}

\* load_ordered_files: the ordered list it returns, from the folder's
\* listing and its order file.  names and ordered are the code's local
\* variables: each is bound to its value once.
load_ordered_files(files, file) ==
    CHOOSE result \in
        {ordered \o SortedNames(files \ SeqRange(ordered)) :
            ordered \in {TakeRecorded(names, files) :
                            names \in {ReadOrderNames(file)}}} : TRUE


\* ---------------------------------------------------------------- state
VARIABLES
    time_ranges,           \* self.time_ranges: sorted list of <<s, e>>
    dirFiles,              \* folder -> names of the *.mp4 files it holds
    orderFile,             \* folder -> None | Some(text of order.txt)
    selected,              \* segment_box.currentIndex(), -1 if none
    playlist_view,         \* the names shown in playlist_view
    now,                   \* now_minutes()
    graceful,              \* graceful_switch_box.isChecked()
    running,               \* self.running
    timer_active,          \* clock_timer is started
    current_segment,       \* self.current_segment
    current_playlist,      \* self.current_playlist (names)
    current_index,         \* self.current_index
    waiting_next_segment,  \* self.waiting_next_segment
    in_interrupt,          \* self.in_interrupt
    interrupt_state,       \* self.interrupt_state: None | Some(snapshot)
    ondemand_window,       \* self.ondemand_window: None | Some(window)
    player,                \* the main QMediaPlayer: state, source, pos
    volume,                \* self.volume
    muted,                 \* self.muted
    audio,                 \* the main QAudioOutput: muted, volume
    last                   \* history: <<last handler run, its outcome>>

storeVars   == <<time_ranges, dirFiles, selected, playlist_view>>
envVars     == <<now, graceful>>
sessionVars == <<current_segment, current_playlist, current_index,
                 waiting_next_segment>>
coreVars    == <<running, timer_active, current_segment, current_playlist,
                 current_index, waiting_next_segment, in_interrupt,
                 interrupt_state, ondemand_window, player, audio, orderFile>>
volumeVars  == <<volume, muted>>
vars == <<time_ranges, dirFiles, orderFile, selected, playlist_view, now,
          graceful, running, timer_active, current_segment,
          current_playlist, current_index, waiting_next_segment,
          in_interrupt, interrupt_state, ondemand_window, player, volume,
          muted, audio, last>>

\* ------------------------------------------------------ player boundary
StoppedPlayer == [state |-> "Stopped", source |-> None, pos |-> 0]

\* QMediaPlayer.setSource: the new source is loaded, stopped, at offset 0.
SetSource(p, src) == [state |-> "Stopped", source |-> Some(src), pos |-> 0]

\* QMediaPlayer.play: plays the source, if there is one.
Play(p) == IF p.source = None THEN p ELSE [p EXCEPT !.state = "Playing"]

\* QMediaPlayer.pause
Pause(p) == IF p.source = None THEN p ELSE [p EXCEPT !.state = "Paused"]

\* QMediaPlayer.stop: stopped, back at offset 0.
Stop(p) == [p EXCEPT !.state = "Stopped", !.pos = 0]

\* QMediaPlayer.setPosition
SetPosition(p, pos) == [p EXCEPT !.pos = pos]

\* max(0.0, min(1.0, v / 100.0)), in percent.
ClampVolume(v) == Max2(0, Min2(100, v))

\* apply_volume_to_main_audio / OnDemandWindow.apply_volume_state /
\* set_volume_from_main: setMuted(muted), and setVolume unless muted.
ApplyVolume(a, vol, m) ==
    [muted |-> m, volume |-> IF m THEN a.volume ELSE ClampVolume(vol)]

\* ------------------------------------------- the handlers' shared state
\* The fields the scheduler, session and interrupt handlers read and write,
\* as one record, so that a handler that calls another composes.
Core ==
    [running |-> running, timer |-> timer_active,
     seg |-> current_segment, plist |-> current_playlist,
     idx |-> current_index, wnext |-> waiting_next_segment,
     in_interrupt |-> in_interrupt, istate |-> interrupt_state,
     od |-> ondemand_window, player |-> player, audio |-> audio,
     order |-> orderFile]

\* The fields after a handler left them as the record c (c bound once).
SetCore(c) ==
    \E v \in {c} :
       /\ running' = v.running
       /\ timer_active' = v.timer
       /\ current_segment' = v.seg
       /\ current_playlist' = v.plist
       /\ current_index' = v.idx
       /\ waiting_next_segment' = v.wnext
       /\ in_interrupt' = v.in_interrupt
       /\ interrupt_state' = v.istate
       /\ ondemand_window' = v.od
       /\ player' = v.player
       /\ audio' = v.audio
       /\ orderFile' = v.order

\* find_active_segment: the first window of the list with s <= m < e.
RECURSIVE FirstActive(_, _)
FirstActive(ranges, m) ==
    IF ranges = <<>> THEN None
    ELSE IF Head(ranges)[1] <= m /\ m < Head(ranges)[2] THEN Head(ranges)
    ELSE FirstActive(Tail(ranges), m)

find_active_segment == FirstActive(time_ranges, now)

Folder(seg) == segment_folder(seg[1], seg[2])

\* play_current, with a mutant that always plays the first item.
play_current_first(c) ==
    IF c.plist = <<>> THEN c
    ELSE [c EXCEPT
            !.audio = ApplyVolume(c.audio, volume, muted),
            !.player = Play(SetSource(c.player, <<c.seg, c.plist[1]>>))]

play_current(c) ==
    IF c.plist = <<>> THEN c
    ELSE [c EXCEPT
            !.audio = ApplyVolume(c.audio, volume, muted),
            !.player = Play(SetSource(c.player,
                                      <<c.seg, c.plist[c.idx + 1]>>))]

\* start_segment (the playlist it resolves is bound to its value once),
\* with a mutant that keeps the index of the old window.
start_segment_keepIndex(c, seg) ==
    LET pl == load_ordered_files(dirFiles[Folder(seg)], c.order[Folder(seg)])
        c1 == [c EXCEPT !.seg = seg, !.wnext = None, !.plist = pl,
                        !.order[Folder(seg)] = Some(OrderText(pl))]
    IN  IF pl = <<>> THEN c1 ELSE play_current_first(c1)

\* A mutant of start_segment that stops the player when the playlist is empty.
start_segment_stopWhenEmpty(c, seg) ==
    LET pl == load_ordered_files(dirFiles[Folder(seg)], c.order[Folder(seg)])
        c1 == [c EXCEPT !.seg = seg, !.wnext = None, !.plist = pl,
                        !.idx = 0,
                        !.order[Folder(seg)] = Some(OrderText(pl))]
    IN  IF pl = <<>> THEN [c1 EXCEPT !.player = Stop(c.player)]
        ELSE play_current(c1)

start_segment(c, seg) ==
    CHOOSE result \in
        {LET c1 == [c EXCEPT !.seg = seg, !.wnext = None, !.plist = pl,
                            !.idx = 0,
                            !.order[Folder(seg)] = Some(OrderText(pl))]
         IN  IF pl = <<>> THEN c1 ELSE play_current(c1) :
            pl \in {load_ordered_files(dirFiles[Folder(seg)],
                                       c.order[Folder(seg)])}} : TRUE

\* check_real_time, with two mutants: one that does not look at
\* in_interrupt, one that switches at once even in graceful mode.
check_real_time_noInterruptGuard(c) ==
    IF ~c.running THEN c
    ELSE LET active == find_active_segment
         IN  IF active = None \/ c.seg = active THEN c
             ELSE IF c.seg # None /\ graceful
                  THEN [c EXCEPT !.wnext = active]
                  ELSE start_segment(c, active)

check_real_time_neverGraceful(c) ==
    IF ~c.running \/ c.in_interrupt THEN c
    ELSE LET active == find_active_segment
         IN  IF active = None \/ c.seg = active THEN c
             ELSE start_segment(c, active)

\* A mutant of check_real_time that stops playback when no window is active.
check_real_time_stopWhenNone(c) ==
    IF ~c.running \/ c.in_interrupt THEN c
    ELSE LET active == find_active_segment
         IN  IF active = None
             THEN [c EXCEPT !.seg = None, !.plist = <<>>, !.idx = 0,
                            !.wnext = None, !.player = Stop(c.player)]
             ELSE IF c.seg # active
                  THEN IF c.seg # None /\ graceful
                       THEN [c EXCEPT !.wnext = active]
                       ELSE start_segment(c, active)
                  ELSE c

check_real_time(c) ==
    IF ~c.running \/ c.in_interrupt THEN c
    ELSE LET active == find_active_segment
         IN  IF active = None THEN c
             ELSE IF c.seg # active
                  THEN IF c.seg # None /\ graceful
                       THEN [c EXCEPT !.wnext = active]
                       ELSE start_segment(c, active)
                  ELSE c

\* on_media_status(EndOfMedia), with a mutant that does not wrap the index.
on_media_status_noWrap(c) ==
    IF ~c.running \/ c.in_interrupt THEN c
    ELSE IF c.wnext # None THEN start_segment(c, c.wnext)
    ELSE IF c.plist # <<>>
         THEN play_current([c EXCEPT
                 !.idx = Min2(c.idx + 1, Len(c.plist) - 1)])
         ELSE c

\* A mutant of on_media_status that increments the index without the modulo.
on_media_status_noMod(c) ==
    IF ~c.running \/ c.in_interrupt THEN c
    ELSE IF c.wnext # None THEN start_segment(c, c.wnext)
    ELSE IF c.plist # <<>>
         THEN LET i == c.idx + 1
              IN  [c EXCEPT
                     !.idx = i,
                     !.audio = ApplyVolume(c.audio, volume, muted),
                     !.player = Play(SetSource(c.player,
                         <<c.seg, c.plist[(i % Len(c.plist)) + 1]>>))]
         ELSE c

on_media_status(c) ==
    IF ~c.running \/ c.in_interrupt THEN c
    ELSE IF c.wnext # None THEN start_segment(c, c.wnext)
    ELSE IF c.plist # <<>>
         THEN play_current([c EXCEPT
                 !.idx = (c.idx + 1) % Len(c.plist)])
         ELSE c

\* A mutant of ClearSession that keeps the window.
ClearSession_keepWindow(c) ==
    [c EXCEPT !.plist = <<>>, !.idx = 0, !.wnext = None]

\* The session fields cleared (toggle_run, delete_segment, resume).
ClearSession(c) ==
    [c EXCEPT !.seg = None, !.plist = <<>>, !.idx = 0, !.wnext = None]

\* resume_from_interrupt, with two mutants: one that restarts the item from
\* its beginning, one that restores the snapshot whatever window is active.
resume_from_interrupt_noSeek(c0) ==
    LET c == [c0 EXCEPT !.in_interrupt = FALSE, !.od = None]
    IN  IF ~c.running THEN c
        ELSE IF c.istate = None THEN check_real_time(c)
        ELSE LET snap == c.istate[1]
                 c1 == [c EXCEPT !.istate = None]
             IN  IF snap.seg # None /\ find_active_segment = snap.seg
                    /\ snap.plist # <<>>
                 THEN LET i == Min2(snap.idx, Len(snap.plist) - 1)
                      IN  [c1 EXCEPT
                             !.seg = snap.seg, !.plist = snap.plist,
                             !.idx = i, !.wnext = snap.wnext,
                             !.audio = ApplyVolume(c.audio, volume, muted),
                             !.player = Play(SetSource(c.player,
                                          <<snap.seg, snap.plist[i + 1]>>))]
                 ELSE check_real_time(ClearSession(c1))

resume_from_interrupt_alwaysRestore(c0) ==
    LET c == [c0 EXCEPT !.in_interrupt = FALSE, !.od = None]
    IN  IF ~c.running THEN c
        ELSE IF c.istate = None THEN check_real_time(c)
        ELSE LET snap == c.istate[1]
                 c1 == [c EXCEPT !.istate = None]
             IN  IF snap.seg # None /\ snap.plist # <<>>
                 THEN LET i == Min2(snap.idx, Len(snap.plist) - 1)
                      IN  [c1 EXCEPT
                             !.seg = snap.seg, !.plist = snap.plist,
                             !.idx = i, !.wnext = snap.wnext,
                             !.audio = ApplyVolume(c.audio, volume, muted),
                             !.player = Play(SetPosition(
                                 SetSource(c.player,
                                           <<snap.seg, snap.plist[i + 1]>>),
                                 snap.pos))]
                 ELSE check_real_time(ClearSession(c1))

\* A mutant of resume_from_interrupt that does not look at running.
resume_from_interrupt_noRunningGuard(c0) ==
    LET c == [c0 EXCEPT !.in_interrupt = FALSE, !.od = None]
    IN  IF c.istate = None THEN check_real_time(c)
        ELSE LET snap == c.istate[1]
                 c1 == [c EXCEPT !.istate = None]
             IN  IF snap.seg # None /\ find_active_segment = snap.seg
                    /\ snap.plist # <<>>
                 THEN LET i == Min2(snap.idx, Len(snap.plist) - 1)
                      IN  [c1 EXCEPT
                             !.seg = snap.seg, !.plist = snap.plist,
                             !.idx = i, !.wnext = snap.wnext,
                             !.audio = ApplyVolume(c.audio, volume, muted),
                             !.player = Play(SetPosition(
                                 SetSource(c.player,
                                           <<snap.seg, snap.plist[i + 1]>>),
                                 snap.pos))]
                 ELSE check_real_time(ClearSession(c1))

resume_from_interrupt(c0) ==
    LET c == [c0 EXCEPT !.in_interrupt = FALSE, !.od = None]
    IN  IF ~c.running THEN c
        ELSE IF c.istate = None THEN check_real_time(c)
        ELSE LET snap == c.istate[1]
                 c1 == [c EXCEPT !.istate = None]
             IN  IF snap.seg # None /\ find_active_segment = snap.seg
                    /\ snap.plist # <<>>
                 THEN LET i == Min2(snap.idx, Len(snap.plist) - 1)
                      IN  [c1 EXCEPT
                             !.seg = snap.seg, !.plist = snap.plist,
                             !.idx = i, !.wnext = snap.wnext,
                             !.audio = ApplyVolume(c.audio, volume, muted),
                             !.player = Play(SetPosition(
                                 SetSource(c.player,
                                           <<snap.seg, snap.plist[i + 1]>>),
                                 snap.pos))]
                 ELSE check_real_time(ClearSession(c1))

\* The outcome of resume_from_interrupt, for the history variable.
ResumeBranch(c0) ==
    IF ~c0.running THEN "not_running"
    ELSE IF c0.istate = None THEN "no_snapshot"
    ELSE IF c0.istate[1].seg # None
            /\ find_active_segment = c0.istate[1].seg
            /\ c0.istate[1].plist # <<>>
         THEN "restored" ELSE "reset"

\* --------------------------------------------------- the UI's two lists
\* selected_segment(): None unless 0 <= idx < len(time_ranges).
SelectedSegment(ranges, idx) ==
    IF idx < 0 \/ idx >= Len(ranges) THEN None ELSE ranges[idx + 1]

\* refresh_playlist_view: the view and the order files after it ran.
RefreshPlaylistView(ranges, idx, files, order) ==
    LET seg == SelectedSegment(ranges, idx)
    IN  IF seg = None THEN [view |-> <<>>, order |-> order]
        ELSE LET pl == load_ordered_files(files[Folder(seg)],
                                          order[Folder(seg)])
             IN  [view |-> pl,
                  order |-> [order EXCEPT
                               ![Folder(seg)] = Some(OrderText(pl))]]

\* refresh_segments: clear() leaves no current index, the first addItem
\* makes index 0 current; each change runs refresh_playlist_view.
IndexAfterRefresh(ranges) == IF ranges = <<>> THEN -1 ELSE 0

\* ---------------------------------------------------------- store actions
\* add_segment, the two time editors holding s and e.
AddSegment(s, e) ==
    /\ Len(time_ranges) < MaxWindows
    /\ IF e < s
       THEN /\ last' = <<"add_segment", "invalid">>
            /\ UNCHANGED <<time_ranges, orderFile, selected, playlist_view>>
       ELSE IF has_overlap(time_ranges, s, e)
       THEN /\ last' = <<"add_segment", "overlap">>
            /\ UNCHANGED <<time_ranges, orderFile, selected, playlist_view>>
       ELSE LET seg == <<s, e>>
                ranges == AppendAndSort(time_ranges, seg)
                order1 == [orderFile EXCEPT ![Folder(seg)] = Some(OrderText(<<>>))]
                r == RefreshPlaylistView(ranges, IndexAfterRefresh(ranges),
                                         dirFiles, order1)
            IN  /\ time_ranges' = ranges
                /\ selected' = IndexAfterRefresh(ranges)
                /\ playlist_view' = r.view
                /\ orderFile' = r.order
                /\ last' = <<"add_segment", "added">>
    /\ UNCHANGED <<dirFiles, envVars, running, timer_active, sessionVars,
                   in_interrupt, interrupt_state, ondemand_window, player,
                   volumeVars, audio>>

\* delete_segment: does nothing without a selected window.
DeleteSegment ==
    /\ SelectedSegment(time_ranges, selected) # None
    /\ LET seg == SelectedSegment(time_ranges, selected)
           c == IF current_segment = seg
                THEN [ClearSession(Core) EXCEPT !.player = Stop(player)]
                ELSE Core
           ranges == ListRemove(time_ranges, seg)
           files == [dirFiles EXCEPT ![Folder(seg)] = {}]
           order1 == [orderFile EXCEPT ![Folder(seg)] = None]
           r == RefreshPlaylistView(ranges, IndexAfterRefresh(ranges),
                                    files, order1)
       IN  /\ time_ranges' = ranges
           /\ dirFiles' = files
           /\ selected' = IndexAfterRefresh(ranges)
           /\ playlist_view' = <<>>
           /\ SetCore([c EXCEPT !.order = r.order])
    /\ last' = <<"delete_segment", "deleted">>
    /\ UNCHANGED <<envVars, volumeVars>>

\* The user picks another entry of segment_box.
SelectSegment(i) ==
    /\ i \in 0..(Len(time_ranges) - 1)
    /\ i # selected
    /\ LET r == RefreshPlaylistView(time_ranges, i, dirFiles, orderFile)
       IN  /\ selected' = i
           /\ playlist_view' = r.view
           /\ orderFile' = r.order
    /\ last' = <<"select_segment", "refreshed">>
    /\ UNCHANGED <<time_ranges, dirFiles, envVars, running, timer_active,
                   sessionVars, in_interrupt, interrupt_state,
                   ondemand_window, player, volumeVars, audio>>

\* save_ui_order_for_selected_segment: write_order(seg, names of the view).
SaveUiOrder(ranges, idx, view, order) ==
    LET seg == SelectedSegment(ranges, idx)
    IN  IF seg = None THEN order
        ELSE [order EXCEPT ![Folder(seg)] = Some(OrderText(view))]

\* list.insert after list.pop: row i of the view dragged to row j.
MoveRow(view, i, j) ==
    LET rest == SubSeq(view, 1, i - 1) \o SubSeq(view, i + 1, Len(view))
    IN  SubSeq(rest, 1, j - 1) \o <<view[i]>> \o SubSeq(rest, j, Len(rest))

\* A drag in playlist_view: rowsMoved runs save_ui_order_for_selected_segment.
DragReorder(i, j) ==
    /\ i \in 1..Len(playlist_view)
    /\ j \in 1..Len(playlist_view)
    /\ i # j
    /\ playlist_view' = MoveRow(playlist_view, i, j)
    /\ orderFile' = SaveUiOrder(time_ranges, selected, playlist_view', orderFile)
    /\ last' = <<"reorder", "saved">>
    /\ UNCHANGED <<time_ranges, dirFiles, selected, envVars, running,
                   timer_active, sessionVars, in_interrupt, interrupt_state,
                   ondemand_window, player, volumeVars, audio>>

\* add_video with one file picked: copied unless a file of that name is
\* there, then load_ordered_files and refresh_playlist_view.
AddVideo(name) ==
    /\ SelectedSegment(time_ranges, selected) # None
    /\ LET seg == SelectedSegment(time_ranges, selected)
           files == [dirFiles EXCEPT ![Folder(seg)] = @ \cup {name}]
           pl == load_ordered_files(files[Folder(seg)], orderFile[Folder(seg)])
           order1 == [orderFile EXCEPT ![Folder(seg)] = Some(OrderText(pl))]
           r == RefreshPlaylistView(time_ranges, selected, files, order1)
       IN  /\ dirFiles' = files
           /\ playlist_view' = r.view
           /\ orderFile' = r.order
    /\ last' = <<"add_video", "added">>
    /\ UNCHANGED <<time_ranges, selected, envVars, running, timer_active,
                   sessionVars, in_interrupt, interrupt_state,
                   ondemand_window, player, volumeVars, audio>>

\* The loop of add_video over the picked files, from item i on: a file whose
\* name is in the folder is skipped, the others are copied.  The copy of
\* item failAt raises (0: none does): the loop ends there, and shutil.copy
\* has left either nothing or a partly written file of that name.
RECURSIVE CopyFrom(_, _, _, _, _)
CopyFrom(files, batch, i, failAt, partial) ==
    IF i > Len(batch) THEN files
    ELSE IF batch[i] \in files
         THEN CopyFrom(files, batch, i + 1, failAt, partial)
    ELSE IF i = failAt
         THEN IF partial THEN files \cup {batch[i]} ELSE files
    ELSE CopyFrom(files \cup {batch[i]}, batch, i + 1, failAt, partial)

\* The lists of files the dialog of add_video can return.
Batches == {<<NameA>>, <<NameB>>, <<NameA, NameB>>, <<NameB, NameA>>}

\* add_video with the files `batch` picked.  When a copy raises, the
\* exception leaves the handler: load_ordered_files and
\* refresh_playlist_view are not run.
AddVideoBatch(batch, failAt, partial) ==
    /\ SelectedSegment(time_ranges, selected) # None
    /\ failAt \in 0..Len(batch)
    /\ LET seg == SelectedSegment(time_ranges, selected)
           failed == failAt > 0 /\ batch[failAt] \notin dirFiles[Folder(seg)]
           files == [dirFiles EXCEPT ![Folder(seg)] =
                        CopyFrom(@, batch, 1, failAt, partial)]
           pl == load_ordered_files(files[Folder(seg)], orderFile[Folder(seg)])
           order1 == [orderFile EXCEPT ![Folder(seg)] = Some(OrderText(pl))]
           r == RefreshPlaylistView(time_ranges, selected, files, order1)
       IN  /\ dirFiles' = files
           /\ IF failed
              THEN /\ UNCHANGED <<playlist_view, orderFile>>
                   /\ last' = <<"add_video", "copy_failed", batch, failAt>>
              ELSE /\ playlist_view' = r.view
                   /\ orderFile' = r.order
                   /\ last' = <<"add_video", "added">>
    /\ UNCHANGED <<time_ranges, selected, envVars, running, timer_active,
                   sessionVars, in_interrupt, interrupt_state,
                   ondemand_window, player, volumeVars, audio>>

\* delete_video of row r of the view.
DeleteVideo(r) ==
    /\ SelectedSegment(time_ranges, selected) # None
    /\ r \in 1..Len(playlist_view)
    /\ LET seg == SelectedSegment(time_ranges, selected)
           view == SubSeq(playlist_view, 1, r - 1)
                     \o SubSeq(playlist_view, r + 1, Len(playlist_view))
       IN  /\ dirFiles' = [dirFiles EXCEPT
                             ![Folder(seg)] = @ \ {playlist_view[r]}]
           /\ playlist_view' = view
           /\ orderFile' = SaveUiOrder(time_ranges, selected, view, orderFile)
    /\ last' = <<"delete_video", "deleted">>
    /\ UNCHANGED <<time_ranges, selected, envVars, running, timer_active,
                   sessionVars, in_interrupt, interrupt_state,
                   ondemand_window, player, volumeVars, audio>>

\* ------------------------------------------------- clock, run, scheduler
\* The wall clock moves to the next minute (and wraps at midnight).
ClockAdvance ==
    /\ now' = (now + 1) % (MaxT + 1)
    /\ last' = <<"other", "-">>
    /\ UNCHANGED <<storeVars, orderFile, graceful, running, timer_active,
                   sessionVars, in_interrupt, interrupt_state,
                   ondemand_window, player, volumeVars, audio>>

\* The user ticks or unticks graceful_switch_box.
ToggleGraceful ==
    /\ graceful' = ~graceful
    /\ last' = <<"other", "-">>
    /\ UNCHANGED <<storeVars, orderFile, now, running, timer_active,
                   sessionVars, in_interrupt, interrupt_state,
                   ondemand_window, player, volumeVars, audio>>

\* A mutant of any_segment_has_video that finds a video in any store.
any_segment_has_video_always == TRUE

\* any_segment_has_video
any_segment_has_video ==
    \E i \in 1..Len(time_ranges) : dirFiles[Folder(time_ranges[i])] # {}

\* toggle_run
ToggleRun ==
    /\ IF ~running /\ time_ranges = <<>>
       THEN /\ last' = <<"toggle_run", "no_windows">>
            /\ UNCHANGED coreVars
       ELSE IF ~running /\ ~any_segment_has_video
       THEN /\ last' = <<"toggle_run", "no_videos">>
            /\ UNCHANGED coreVars
       ELSE IF ~running
       THEN /\ SetCore(check_real_time(
                   [Core EXCEPT !.running = TRUE, !.timer = TRUE]))
            /\ last' = <<"toggle_run", "started">>
       ELSE /\ SetCore([ClearSession(Core) EXCEPT
                          !.running = FALSE, !.timer = FALSE,
                          !.player = Stop(player)])
            /\ last' = <<"toggle_run", "stopped">>
    /\ UNCHANGED <<storeVars, envVars, volumeVars>>

\* The branch check_real_time takes, for the history variable.
TickBranch ==
    IF ~running \/ in_interrupt THEN "ignored"
    ELSE IF find_active_segment = None
            \/ find_active_segment = current_segment THEN "idle"
    ELSE IF current_segment # None /\ graceful THEN "pending"
    ELSE "started"

\* clock_timer.timeout: check_real_time
Tick ==
    /\ timer_active
    /\ SetCore(check_real_time(Core))
    /\ last' = <<"tick", TickBranch>>
    /\ UNCHANGED <<storeVars, envVars, volumeVars>>

\* ---------------------------------------------------------- main player
\* The main player plays on: its offset grows.
PlayerProgress ==
    /\ player.state = "Playing"
    /\ player.pos < MaxPos
    /\ player' = [player EXCEPT !.pos = @ + 1]
    /\ last' = <<"other", "-">>
    /\ UNCHANGED <<storeVars, orderFile, envVars, running, timer_active,
                   sessionVars, in_interrupt, interrupt_state,
                   ondemand_window, volumeVars, audio>>

\* The branch on_media_status takes, for the history variable.
EndOfMediaBranch ==
    IF ~running \/ in_interrupt THEN "ignored"
    ELSE IF waiting_next_segment # None THEN "switched"
    ELSE IF current_playlist # <<>> THEN "advanced"
    ELSE "nothing"

\* The main player reaches the end of its media: it stops and
\* mediaStatusChanged(EndOfMedia) runs on_media_status.
EndOfMedia ==
    /\ player.state = "Playing"
    /\ SetCore(on_media_status(
           [Core EXCEPT !.player = [player EXCEPT !.state = "Stopped"]]))
    /\ last' = <<"end_of_media", EndOfMediaBranch>>
    /\ UNCHANGED <<storeVars, envVars, volumeVars>>

\* OnDemandWindow.toggle_pause: pause when playing, else play (which does
\* nothing while the player has no source, before start_play).
od_toggle_pause(w) ==
    IF w.state = "Playing" THEN [w EXCEPT !.state = "Paused"]
    ELSE IF w.state = "Paused" THEN [w EXCEPT !.state = "Playing"]
    ELSE w

\* toggle_main_pause
toggle_main_pause(p) == IF p.state = "Playing" THEN Pause(p) ELSE Play(p)

\* toggle_pause_dispatch (the space key)
TogglePauseDispatch ==
    /\ IF ondemand_window # None /\ ondemand_window[1].visible
       THEN /\ ondemand_window' = Some(od_toggle_pause(ondemand_window[1]))
            /\ last' = <<"other", "-">>
            /\ UNCHANGED player
       ELSE /\ player' = toggle_main_pause(player)
            /\ last' = <<"other", "-">>
            /\ UNCHANGED ondemand_window
    /\ UNCHANGED <<storeVars, orderFile, envVars, running, timer_active,
                   sessionVars, in_interrupt, interrupt_state, volumeVars,
                   audio>>

\* --------------------------------------------------- on-demand interrupt
\* OnDemandWindow.__init__ and show(): a player of its own, stopped, the
\* volume taken from the main window.  The window's list is not tracked:
\* the files in it are the user's choice, and so is whether the item that
\* ends is the last one.
NewOnDemandWindow ==
    [visible |-> TRUE, state |-> "Stopped",
     audio |-> ApplyVolume([muted |-> FALSE, volume |-> 100], volume, muted)]

\* start_on_demand: ignored while interrupted; otherwise snapshot the
\* session and the offset, stop the main player, open the on-demand window.
\* With a mutant that is not ignored while interrupted.
start_on_demand_noGuard(c) ==
    [c EXCEPT
       !.istate = Some([seg |-> c.seg, plist |-> c.plist,
                        idx |-> c.idx, pos |-> c.player.pos,
                        wnext |-> c.wnext]),
       !.in_interrupt = TRUE,
       !.player = Stop(c.player),
       !.od = Some(NewOnDemandWindow)]

start_on_demand(c) ==
    IF c.in_interrupt THEN c
    ELSE [c EXCEPT
            !.istate = Some([seg |-> c.seg, plist |-> c.plist,
                             idx |-> c.idx, pos |-> c.player.pos,
                             wnext |-> c.wnext]),
            !.in_interrupt = TRUE,
            !.player = Stop(c.player),
            !.od = Some(NewOnDemandWindow)]

StartOnDemand ==
    /\ SetCore(start_on_demand(Core))
    /\ last' = <<"start_on_demand", IF in_interrupt THEN "ignored"
                                    ELSE "interrupted">>
    /\ UNCHANGED <<storeVars, envVars, volumeVars>>

\* OnDemandWindow.play_current
od_play_current(w) ==
    [w EXCEPT !.audio = ApplyVolume(w.audio, volume, muted),
              !.state = "Playing"]

\* OnDemandWindow.start_play, the list holding at least one file.
ODStartPlay ==
    /\ ondemand_window # None
    /\ ondemand_window[1].visible
    /\ ondemand_window' = Some(od_play_current(ondemand_window[1]))
    /\ last' = <<"other", "-">>
    /\ UNCHANGED <<storeVars, orderFile, envVars, running, timer_active,
                   sessionVars, in_interrupt, interrupt_state, player,
                   volumeVars, audio>>

\* OnDemandWindow.on_status(EndOfMedia): the next item is played, or, the
\* item having been the last (isLast), close() and on_finish(False).
ODEndOfMedia(isLast) ==
    /\ ondemand_window # None
    /\ ondemand_window[1].state = "Playing"
    /\ IF isLast
       THEN /\ SetCore(resume_from_interrupt(Core))
            /\ last' = <<"on_demand_finished", ResumeBranch(Core)>>
       ELSE /\ ondemand_window' = Some(od_play_current(ondemand_window[1]))
            /\ last' = <<"other", "-">>
            /\ UNCHANGED <<orderFile, running, timer_active, sessionVars,
                           in_interrupt, interrupt_state, player, audio>>
    /\ UNCHANGED <<storeVars, envVars, volumeVars>>

\* OnDemandWindow.stop_on_demand: stop, close() and on_finish(True).
ODStopOnDemand ==
    /\ ondemand_window # None
    /\ ondemand_window[1].visible
    /\ SetCore(resume_from_interrupt(Core))
    /\ last' = <<"stop_on_demand", ResumeBranch(Core)>>
    /\ UNCHANGED <<storeVars, envVars, volumeVars>>

\* The user closes the on-demand window with its title bar: the class has
\* no closeEvent, so the window is hidden and on_finish is not called.
ODCloseWindow ==
    /\ ondemand_window # None
    /\ ondemand_window[1].visible
    /\ ondemand_window' = Some([ondemand_window[1] EXCEPT !.visible = FALSE])
    /\ last' = <<"other", "-">>
    /\ UNCHANGED <<storeVars, orderFile, envVars, running, timer_active,
                   sessionVars, in_interrupt, interrupt_state, player,
                   volumeVars, audio>>

\* ---------------------------------------------------------------- volume
VolumeLevels == {50, 55}

PushVolume(w, vol, m) ==
    IF w = None THEN None
    ELSE Some([w[1] EXCEPT !.audio = ApplyVolume(w[1].audio, vol, m)])

\* set_volume (the slider moved to v)
SetVolume(v) ==
    /\ v # volume
    /\ volume' = Max2(0, Min2(100, v))
    /\ audio' = ApplyVolume(audio, volume', muted)
    /\ ondemand_window' = PushVolume(ondemand_window, volume', muted)
    /\ last' = <<"set_volume", "set">>
    /\ UNCHANGED <<storeVars, orderFile, envVars, running, timer_active,
                   sessionVars, in_interrupt, interrupt_state, player,
                   muted>>

\* toggle_mute
ToggleMute ==
    /\ muted' = ~muted
    /\ audio' = ApplyVolume(audio, volume, muted')
    /\ ondemand_window' = PushVolume(ondemand_window, volume, muted')
    /\ last' = <<"toggle_mute", "toggled">>
    /\ UNCHANGED <<storeVars, orderFile, envVars, running, timer_active,
                   sessionVars, in_interrupt, interrupt_state, player,
                   volume>>

\* ---------------------------------------------------------- specifications
EmptyFolders == [f \in AllFolders |-> {}]
NoOrderFiles == [f \in AllFolders |-> None]

\* MainWindow.__init__: the fields it sets before it loads the windows.
FreshFields ==
    /\ graceful = TRUE
    /\ running = FALSE
    /\ timer_active = FALSE
    /\ current_segment = None
    /\ current_playlist = <<>>
    /\ current_index = 0
    /\ waiting_next_segment = None
    /\ in_interrupt = FALSE
    /\ interrupt_state = None
    /\ ondemand_window = None
    /\ player = StoppedPlayer
    /\ volume = 50
    /\ muted = FALSE
    /\ audio = ApplyVolume([muted |-> FALSE, volume |-> 100], 50, FALSE)

\* MainWindow.__init__ from the persisted windows `ranges`, the folders
\* `files` and the order files `order`: load_csv, refresh_segments,
\* refresh_playlist_view.
Constructed(ranges, files, order) ==
    LET r == RefreshPlaylistView(ranges, IndexAfterRefresh(ranges), files, order)
    IN  /\ FreshFields
        /\ time_ranges = ranges
        /\ dirFiles = files
        /\ selected = IndexAfterRefresh(ranges)
        /\ playlist_view = r.view
        /\ orderFile = r.order
        /\ last = <<"init", "constructed">>

\* The windows, folders and order files a previous session left behind:
\* two windows that touch, the first folder holding both files, the second
\* both or none, each order file as load_ordered_files last wrote it.
PersistedRanges == << <<0, 1>>, <<1, 2>> >>
PersistedFolders == {{}, FileNames}

PersistedState(f1, f2) ==
    [files |-> [EmptyFolders EXCEPT ![Folder(PersistedRanges[1])] = f1,
                                    ![Folder(PersistedRanges[2])] = f2],
     order |-> [NoOrderFiles EXCEPT
                  ![Folder(PersistedRanges[1])] =
                      Some(OrderText(load_ordered_files(f1, None))),
                  ![Folder(PersistedRanges[2])] =
                      Some(OrderText(load_ordered_files(f2, None)))]]

Init ==
    /\ now \in Minutes
    /\ \E f2 \in PersistedFolders :
          Constructed(PersistedRanges, PersistedState(FileNames, f2).files,
                      PersistedState(FileNames, f2).order)

\* The schedule runs: clock, timer, players, the on-demand window, the
\* volume slider.
Next ==
    \/ ClockAdvance
    \/ ToggleGraceful
    \/ ToggleRun
    \/ Tick
    \/ PlayerProgress
    \/ EndOfMedia
    \/ TogglePauseDispatch
    \/ StartOnDemand
    \/ ODStartPlay
    \/ \E isLast \in BOOLEAN : ODEndOfMedia(isLast)
    \/ ODStopOnDemand
    \/ ODCloseWindow

Spec == Init /\ [][Next]_vars

\* The same, the user also moving the volume slider.
NextVolume ==
    \/ Next
    \/ \E v \in VolumeLevels : SetVolume(v)

SpecVolume == Init /\ [][NextVolume]_vars

\* The schedule is edited, from an empty store, while the run is stopped.
InitStore ==
    /\ now = 0
    /\ Constructed(<<>>, EmptyFolders, NoOrderFiles)

NextStore ==
    \/ \E s \in Minutes, e \in Minutes : AddSegment(s, e)
    \/ DeleteSegment
    \/ \E i \in 0..(MaxWindows - 1) : SelectSegment(i)
    \/ \E name \in FileNames : AddVideo(name)
    \/ \E r \in 1..Cardinality(FileNames) : DeleteVideo(r)

SpecStore == InitStore /\ [][NextStore]_vars

\* The order record is reordered and read back: one window, active now,
\* its folder holding any files, the view showing any list of distinct
\* names, and order.txt as write_order last wrote it from that list.
NameLists ==
    UNION {{s \in [1..n -> NameUniverse] :
               \A i, j \in 1..n : i # j => s[i] # s[j]} :
           n \in 0..Cardinality(NameUniverse)}

ResolveWindow == <<0, 1>>

InitResolve ==
    /\ now = 0
    /\ FreshFields
    /\ time_ranges = <<ResolveWindow>>
    /\ selected = 0
    /\ \E files \in SUBSET NameUniverse, names \in NameLists :
          /\ dirFiles = [EmptyFolders EXCEPT ![Folder(ResolveWindow)] = files]
          /\ playlist_view = names
          /\ orderFile = [NoOrderFiles EXCEPT
                            ![Folder(ResolveWindow)] = Some(OrderText(names))]
    /\ last = <<"init", "saved">>

NextResolve ==
    \/ \E i, j \in 1..Cardinality(NameUniverse) : DragReorder(i, j)
    \/ ToggleRun
    \/ Tick
    \/ ToggleMute

SpecResolve == InitResolve /\ [][NextResolve]_vars

\* Videos are added in batches to the one window of the store, some copies
\* failing: the folder holds any of the files, the view shows any list of
\* them and order.txt is as write_order last wrote it from that list.
InitBatch ==
    /\ now = 0
    /\ FreshFields
    /\ time_ranges = <<ResolveWindow>>
    /\ selected = 0
    /\ \E files \in SUBSET FileNames, names \in Batches \cup {<<>>} :
          /\ dirFiles = [EmptyFolders EXCEPT ![Folder(ResolveWindow)] = files]
          /\ playlist_view = names
          /\ orderFile = [NoOrderFiles EXCEPT
                            ![Folder(ResolveWindow)] = Some(OrderText(names))]
    /\ last = <<"init", "saved">>

NextBatch ==
    \/ \E batch \in Batches, failAt \in 0..Cardinality(FileNames),
          partial \in BOOLEAN : AddVideoBatch(batch, failAt, partial)
    \/ \E r \in 1..Cardinality(FileNames) : DeleteVideo(r)
    \/ \E i, j \in 1..Cardinality(FileNames) : DragReorder(i, j)

SpecBatch == InitBatch /\ [][NextBatch]_vars

\* The schedule is edited while it runs: windows and videos are deleted
\* between ticks, ends of media and on-demand interrupts.
NextEdit ==
    \/ ClockAdvance
    \/ ToggleGraceful
    \/ ToggleRun
    \/ Tick
    \/ EndOfMedia
    \/ StartOnDemand
    \/ ODStopOnDemand
    \/ DeleteSegment
    \/ \E i \in 0..(MaxWindows - 1) : SelectSegment(i)
    \/ \E r \in 1..Cardinality(FileNames) : DeleteVideo(r)

SpecEdit == Init /\ [][NextEdit]_vars

\* The schedule runs unattended: the clock, the timer and the main player.
\* clock_timer fires every second while it is started, and the player
\* reports the end of every item it plays.
NextLive ==
    \/ ClockAdvance
    \/ ToggleGraceful
    \/ ToggleRun
    \/ Tick
    \/ PlayerProgress
    \/ EndOfMedia

SpecLive ==
    /\ Init
    /\ [][NextLive]_vars
    /\ WF_vars(Tick)
    /\ WF_vars(EndOfMedia)

\* =============================================================== claims
\* A step that ran resume_from_interrupt (end_interrupt), after either
\* stop_on_demand (terminated) or the last on-demand item (finished).
IsEndInterrupt(l) == l[1] \in {"stop_on_demand", "on_demand_finished"}

Snapshot == interrupt_state[1]

\* C1 -- Interrupt/resume continuity.  (a) start_on_demand, when not yet
\* interrupted, snapshots the session's window, playlist, index and pending
\* window and the main player's offset; (b) no step taken while interrupted
\* (tick, end of media, volume change, ...) alters the snapshot; (c) when
\* resume_from_interrupt runs with running true, a snapshot of window A with
\* a non-empty playlist and find_active = A, the session afterwards is
\* exactly the snapshot (window, playlist, index, pending window) and the
\* main player plays the snapshot's item from the snapshot's offset.
C1_Capture ==
    (~in_interrupt /\ last'[1] = "start_on_demand")
        => interrupt_state' =
               Some([seg |-> current_segment, plist |-> current_playlist,
                     idx |-> current_index, pos |-> player.pos,
                     wnext |-> waiting_next_segment])

C1_Kept == (in_interrupt /\ in_interrupt') => interrupt_state' = interrupt_state

C1_Restore ==
    (/\ IsEndInterrupt(last')
     /\ running
     /\ Snapshot.seg # None
     /\ Snapshot.plist # <<>>
     /\ find_active_segment = Snapshot.seg)
        => /\ current_segment' = Snapshot.seg
           /\ current_playlist' = Snapshot.plist
           /\ current_index' = Snapshot.idx
           /\ waiting_next_segment' = Snapshot.wnext
           /\ player' = [state |-> "Playing",
                         source |-> Some(<<Snapshot.seg,
                                           Snapshot.plist[Snapshot.idx + 1]>>),
                         pos |-> Snapshot.pos]

\* C1: every step captures the snapshot at begin_interrupt, keeps it while
\* interrupted, and at end_interrupt (window A still active, running)
\* restores window, playlist, index, pending window, offset and Playing.
C1_ResumeContinuity == [][C1_Capture /\ C1_Kept /\ C1_Restore]_vars

\* C1 witness: a resume that restored the session at its second item, at a
\* non-zero offset, after the volume was changed during the interrupt.
C1_Witness ==
    /\ IsEndInterrupt(last)
    /\ last[2] = "restored"
    /\ current_index = 1
    /\ player.pos = 1
    /\ player.state = "Playing"
    /\ volume # 50

\* C2 -- Interrupt across a window boundary.  When resume_from_interrupt
\* runs with running true and a snapshot whose window is none, or is not
\* find_active, or whose playlist is empty, the snapshot is dropped and the
\* session is cleared, then the tick logic runs: with no active window the
\* session stays cleared (no window, empty playlist, no player command);
\* with C active the session has window C, its resolved playlist, index 0,
\* no pending window, and the player plays C's first item if there is one.
C2_Boundary ==
    (/\ IsEndInterrupt(last')
     /\ running
     /\ \/ Snapshot.seg = None
        \/ Snapshot.seg # find_active_segment
        \/ Snapshot.plist = <<>>)
        => /\ interrupt_state' = None
           /\ waiting_next_segment' = None
           /\ current_index' = 0
           /\ IF find_active_segment = None
              THEN /\ current_segment' = None
                   /\ current_playlist' = <<>>
                   /\ player' = player
              ELSE LET C == find_active_segment
                       pl == load_ordered_files(dirFiles[Folder(C)],
                                                orderFile[Folder(C)])
                   IN  /\ current_segment' = C
                       /\ current_playlist' = pl
                       /\ IF pl = <<>> THEN player' = player
                          ELSE player' = [state |-> "Playing",
                                          source |-> Some(<<C, pl[1]>>),
                                          pos |-> 0]

\* C2: every end_interrupt whose snapshot cannot be restored drops it,
\* clears the session and runs the tick logic at once.
C2_InterruptAcrossBoundary == [][C2_Boundary]_vars

\* C2 witness: a resume that dropped the snapshot and started the second
\* window, which is now active.
C2_Witness ==
    /\ IsEndInterrupt(last)
    /\ last[2] = "reset"
    /\ current_segment = <<1, 2>>
    /\ now = 1
    /\ player.state = "Playing"

\* C3 -- While interrupted (or not running), neither the tick nor the end
\* of media notification changes the session (window, playlist, index,
\* pending window) or commands the main player: a tick leaves the player as
\* it is, the end of media leaves it stopped on its source.
C3_Suppressed ==
    ((in_interrupt \/ ~running) /\ last'[1] \in {"tick", "end_of_media"})
        => /\ UNCHANGED sessionVars
           /\ last'[1] = "tick" => player' = player
           /\ last'[1] = "end_of_media"
                  => player' = [player EXCEPT !.state = "Stopped"]

\* C3: no tick and no end of media taken while interrupted or not running
\* changes the session or commands the main player.
C3_InterruptSuppresses == [][C3_Suppressed]_vars

\* C3 witness: a tick taken while interrupted, at a minute whose active
\* window is not the session's.
C3_Witness ==
    /\ in_interrupt
    /\ running
    /\ last = <<"tick", "ignored">>
    /\ find_active_segment # None
    /\ find_active_segment # current_segment

\* C4 -- Graceful switch.  With graceful mode on, running, not interrupted
\* and a current window A: (a) a tick at which find_active = B # A only sets
\* the pending window to B, leaving window, playlist, index and the player
\* as they are; (b) a step that makes the pending window the current one is
\* the end of media, and it leaves index 0 and no pending window.
C4_TickDefers ==
    (/\ running /\ ~in_interrupt /\ graceful
     /\ current_segment # None
     /\ last'[1] = "tick"
     /\ find_active_segment # None
     /\ find_active_segment # current_segment)
        => /\ waiting_next_segment' = find_active_segment
           /\ UNCHANGED <<current_segment, current_playlist, current_index,
                          player>>

C4_SwitchAtEnd ==
    (/\ running /\ ~in_interrupt /\ graceful
     /\ current_segment # None
     /\ waiting_next_segment # None
     /\ current_segment' # current_segment
     /\ current_segment' = waiting_next_segment)
        => /\ last'[1] = "end_of_media"
           /\ current_index' = 0
           /\ waiting_next_segment' = None

\* C4: in graceful mode a tick only records the pending window, and the
\* switch to it happens at the end of media and at no other step.
C4_GracefulSwitch == [][C4_TickDefers /\ C4_SwitchAtEnd]_vars

\* C4 witness: the end of media has just switched to the second window,
\* which a tick had left pending.
C4_Witness ==
    /\ last = <<"end_of_media", "switched">>
    /\ graceful
    /\ current_segment = <<1, 2>>
    /\ player.state = "Playing"

\* C5 -- Immediate switch.  Running and not interrupted, a tick at which
\* find_active = B differs from the current window, with no current window
\* or graceful mode off, starts B in that tick: window B, playlist
\* resolve(B), index 0, no pending window.
C5_TickStarts ==
    (/\ running /\ ~in_interrupt
     /\ last'[1] = "tick"
     /\ find_active_segment # None
     /\ find_active_segment # current_segment
     /\ (current_segment = None \/ ~graceful))
        => /\ current_segment' = find_active_segment
           /\ current_playlist' =
                  load_ordered_files(dirFiles[Folder(find_active_segment)],
                                     orderFile[Folder(find_active_segment)])
           /\ current_index' = 0
           /\ waiting_next_segment' = None

\* C5: a tick that finds another active window, with no current window or
\* graceful mode off, starts that window in the same tick at index 0.
C5_ImmediateSwitch == [][C5_TickStarts]_vars

\* C5 witness: graceful mode off, the clock at the second window's first
\* minute, and a tick that has just started that window.
C5_Witness ==
    /\ last = <<"tick", "started">>
    /\ ~graceful
    /\ now = 1
    /\ current_segment = <<1, 2>>
    /\ current_index = 0

\* C7 -- Looping.  Running, not interrupted, no pending window and a
\* playlist of n >= 1 items: the end of media sets index to
\* (index + 1) mod n and plays that item from its start; window and playlist
\* stay.
C7_Advance ==
    (/\ running /\ ~in_interrupt
     /\ waiting_next_segment = None
     /\ current_playlist # <<>>
     /\ last'[1] = "end_of_media")
        => /\ current_index' = (current_index + 1) % Len(current_playlist)
           /\ UNCHANGED <<current_segment, current_playlist>>
           /\ player' = [state |-> "Playing",
                         source |-> Some(<<current_segment,
                                current_playlist[current_index' + 1]>>),
                         pos |-> 0]

\* C7: every end of media with no pending window advances the index
\* modulo the playlist length and plays that item.
C7_Looping == [][C7_Advance]_vars

\* C7 witness: the end of media has just wrapped a two-item playlist back
\* to its first item.
C7_Witness ==
    /\ last = <<"end_of_media", "advanced">>
    /\ Len(current_playlist) = 2
    /\ current_index = 0
    /\ player.state = "Playing"

\* C6 -- Non-overlap.  No two stored windows at distinct positions satisfy
\* max(s1, s2) < min(e1, e2).
C6_NoOverlap ==
    \A i, j \in 1..Len(time_ranges) :
        i # j => ~(Max2(time_ranges[i][1], time_ranges[j][1])
                     < Min2(time_ranges[i][2], time_ranges[j][2]))

\* C6 witness: two windows of positive length that touch at a boundary are
\* both stored.
C6_Witness ==
    \E i, j \in 1..Len(time_ranges) :
        /\ time_ranges[i][1] < time_ranges[i][2]
        /\ time_ranges[j][1] < time_ranges[j][2]
        /\ time_ranges[i][2] = time_ranges[j][1]

\* C8 -- The store holds no window with end <= start (a zero-length window
\* is rejected by add).
C8_NoDegenerateWindow ==
    \A i \in 1..Len(time_ranges) : time_ranges[i][2] > time_ranges[i][1]

\* The names of `names` that are in `files`, in the same order.
RECURSIVE ExistingOf(_, _)
ExistingOf(names, files) ==
    IF names = <<>> THEN <<>>
    ELSE IF Head(names) \in files
         THEN <<Head(names)>> \o ExistingOf(Tail(names), files)
         ELSE ExistingOf(Tail(names), files)

\* What resolve is to return for the record `names` and the folder `files`.
MergedOrder(names, files) ==
    ExistingOf(names, files) \o SortedNames(files \ SeqRange(names))

\* A step in which start_segment resolved the active window's playlist.
ResolvedByRun == last' = <<"toggle_run", "started">> /\ find_active_segment # None

ActiveFolder == Folder(find_active_segment)

\* C9 -- resolve.  The order record being the list `names` that write_order
\* last wrote (the list the view shows), resolve returns the names of the
\* record that exist in the folder, in record order, then the other files
\* in lexicographic order, and the order file then holds the returned list.
C9_Merge ==
    (/\ ResolvedByRun
     /\ orderFile[ActiveFolder] = Some(OrderText(playlist_view)))
        => /\ current_playlist' =
                  MergedOrder(playlist_view, dirFiles[ActiveFolder])
           /\ orderFile'[ActiveFolder] = Some(OrderText(current_playlist'))

\* C9: every resolve returns the record's existing names in record order,
\* then the unnamed files lexicographically, and persists that list.
C9_ResolveMerges == [][C9_Merge]_vars

\* C10 -- Round trip.  set_order(w, names) followed by resolve(w) returns
\* names filtered to the files that exist, in the same relative order, then
\* the other files in lexicographic order.
C10_AfterSetOrder ==
    (last = <<"reorder", "saved">> /\ ResolvedByRun)
        => current_playlist' =
               MergedOrder(playlist_view, dirFiles[ActiveFolder])

\* C10: every resolve that follows set_order(w, names) returns names
\* filtered to existing files, then the other files lexicographically.
C10_RoundTrip == [][C10_AfterSetOrder]_vars

\* The folder of the window selected in segment_box.
SelectedFolder == Folder(SelectedSegment(time_ranges, selected))

\* C11 -- Batch add.  When the copy of one picked file fails, every other
\* file of the batch is in the folder afterwards, and the order file holds
\* the order re-derived from the folder (load_ordered_files has run).
C11_RestProcessed ==
    (last'[1] = "add_video" /\ last'[2] = "copy_failed")
        => LET batch == last'[3]
               k == last'[4]
           IN  /\ \A i \in 1..Len(batch) :
                     i # k => batch[i] \in dirFiles'[SelectedFolder]
               /\ orderFile'[SelectedFolder] =
                      Some(OrderText(load_ordered_files(
                          dirFiles'[SelectedFolder],
                          orderFile[SelectedFolder])))

\* C11: every batch add in which one copy fails still copies the other
\* files and persists the re-derived order record.
C11_BatchSurvivesCopyFailure == [][C11_RestProcessed]_vars

\* C12 -- Rejected start-run.  toggle_run while not running, with no window
\* in the store or no window holding a file, leaves running false, the
\* timer stopped, and the session, the interrupt state, the players and the
\* store as they are.
C12_Unchanged ==
    (/\ ~running
     /\ last'[1] = "toggle_run"
     /\ \A i \in 1..Len(time_ranges) : dirFiles[Folder(time_ranges[i])] = {})
        => /\ running' = FALSE
           /\ timer_active' = FALSE
           /\ UNCHANGED <<sessionVars, in_interrupt, interrupt_state,
                          ondemand_window, player, audio, orderFile,
                          storeVars, timer_active>>

\* C12: every toggle-run request made while stopped, with no windows or no
\* playable item in any window, changes no state.
C12_RejectedStartRun == [][C12_Unchanged]_vars

\* C12 witness: a start request rejected because the windows that are left
\* hold no video; the run is still stopped.
C12_Witness ==
    /\ last = <<"toggle_run", "no_videos">>
    /\ time_ranges # <<>>
    /\ ~running
    /\ ~timer_active

\* C13: after every end_interrupt, whether running is true or false, no
\* snapshot remains stored (each snapshot is consumed by its end_interrupt).
C13_SnapshotConsumed == [][IsEndInterrupt(last') => interrupt_state' = None]_vars

\* C14: in every reachable state, a non-empty session playlist has
\* 0 <= index < len(playlist).
C14_IndexInRange ==
    current_playlist # <<>>
        => (0 <= current_index /\ current_index < Len(current_playlist))

\* C14 witness: the end of media has advanced the session to the last item
\* of a two-item playlist.
C14_Witness ==
    /\ last = <<"end_of_media", "advanced">>
    /\ Len(current_playlist) = 2
    /\ current_index = 1

\* C15 -- start_on_demand while interrupted changes neither the snapshot,
\* nor the interrupted flag, nor the on-demand window, nor the session.
C15_NoOp ==
    (in_interrupt /\ last'[1] = "start_on_demand")
        => /\ in_interrupt' = TRUE
           /\ UNCHANGED <<interrupt_state, ondemand_window, sessionVars,
                          player>>

\* C15: every begin_interrupt made while interrupted is a no-op.
C15_BeginWhileInterrupted == [][C15_NoOp]_vars

\* C15 witness: a second start_on_demand has been ignored during a run, the
\* snapshot of the first still stored.
C15_Witness ==
    /\ last = <<"start_on_demand", "ignored">>
    /\ running
    /\ in_interrupt
    /\ interrupt_state # None
    /\ interrupt_state[1].seg # None

\* C16 -- resume_from_interrupt with running false clears in_interrupt and
\* drops the on-demand window; the session has no window and an empty
\* playlist before and after, the main player gets no command and
\* check_real_time is not run (nothing is resolved or started).
C16_StaysIdle ==
    (IsEndInterrupt(last') /\ ~running)
        => /\ in_interrupt' = FALSE
           /\ ondemand_window' = None
           /\ current_segment = None
           /\ current_playlist = <<>>
           /\ UNCHANGED <<sessionVars, player, audio, orderFile, running,
                          timer_active>>

\* C16: every end_interrupt with running false leaves the session idle and
\* the main player untouched.
C16_EndInterruptNotRunning == [][C16_StaysIdle]_vars

\* C16 witness: an end_interrupt taken after the run was stopped, while the
\* window of the snapshot is the active one; the session has no window.
C16_Witness ==
    /\ last = <<"stop_on_demand", "not_running">>
    /\ interrupt_state # None
    /\ interrupt_state[1].seg # None
    /\ interrupt_state[1].seg = find_active_segment
    /\ current_segment = None
    /\ ~in_interrupt

\* The window start_segment is called with in this step, None if it is not
\* called: by a tick, by toggle_run or resume_from_interrupt through
\* check_real_time, or by the end of media for the pending window.
C17_Started ==
    IF \/ last' = <<"tick", "started">>
       \/ (last' = <<"toggle_run", "started">> /\ ~in_interrupt)
       \/ (IsEndInterrupt(last') /\ last'[2] = "reset")
    THEN find_active_segment
    ELSE IF last' = <<"end_of_media", "switched">>
    THEN waiting_next_segment
    ELSE None

\* C17 -- start_segment(W) leaves window W, playlist resolve(W), index 0 and
\* no pending window; with resolve(W) empty the main player gets no
\* command (it is as the step found it, stopped at its source when the step
\* is the end of media).
C17_StartSets ==
    C17_Started # None
        => LET W == C17_Started
               pl == load_ordered_files(dirFiles[Folder(W)],
                                        orderFile[Folder(W)])
           IN  /\ current_segment' = W
               /\ current_playlist' = pl
               /\ current_index' = 0
               /\ waiting_next_segment' = None
               /\ pl = <<>>
                    => player' = IF last'[1] = "end_of_media"
                                 THEN [player EXCEPT !.state = "Stopped"]
                                 ELSE player

\* ... and a later tick at which W, with its empty playlist, is the active
\* window does nothing.
C17_LaterTicks ==
    (/\ last'[1] = "tick"
     /\ current_segment # None
     /\ current_playlist = <<>>
     /\ find_active_segment = current_segment)
        => UNCHANGED <<sessionVars, player>>

\* C17: every start_window(W) sets window W, playlist resolve(W), index 0,
\* no pending window, sends the player nothing when resolve(W) is empty,
\* and later ticks with W active do nothing.
C17_StartWindow == [][C17_StartSets /\ C17_LaterTicks]_vars

\* C17 witness: the second window was started with an empty playlist, and a
\* tick taken while it is active has just done nothing.
C17_Witness ==
    /\ last = <<"tick", "idle">>
    /\ running
    /\ ~in_interrupt
    /\ current_segment = <<1, 2>>
    /\ current_playlist = <<>>
    /\ find_active_segment = current_segment

\* C18 -- A tick at which no window is active, or the active window is the
\* session's, leaves the session and the main player as they are.
C18_Idle ==
    (/\ last'[1] = "tick"
     /\ \/ find_active_segment = None
        \/ find_active_segment = current_segment)
        => UNCHANGED <<sessionVars, player, orderFile>>

\* C18: every tick with no active window, or with the active window equal
\* to the current one, changes nothing and neither stops nor restarts
\* playback.
C18_TickNoOp == [][C18_Idle]_vars

\* C18 witness: the session's window has ended, no window is active, and a
\* tick has left the session on that window, still playing.
C18_Witness ==
    /\ last = <<"tick", "idle">>
    /\ running
    /\ ~in_interrupt
    /\ find_active_segment = None
    /\ current_segment # None
    /\ player.state = "Playing"

\* The run is on, not interrupted, and W, holding a file, is active.
C19_Active(W) ==
    /\ running
    /\ ~in_interrupt
    /\ find_active_segment = W
    /\ dirFiles[Folder(W)] # {}

\* The session is on W and the main player plays one of W's items.
C19_PlayingItemOf(W) ==
    /\ current_segment = W
    /\ player.state = "Playing"
    /\ player.source # None
    /\ player.source[1][1] = W

\* C19: whenever the run is on, not interrupted, and a window W with a
\* playable item stays active, then under fair ticks and fair ends of media
\* the session eventually is on W, playing an item of W.
C19_ScheduleLiveness ==
    \A W \in {PersistedRanges[1], PersistedRanges[2]} :
        []([]C19_Active(W) => <>C19_PlayingItemOf(W))

\* A window is referenced soundly: none, or a window of the store.
InStore(seg) ==
    seg = None \/ \E i \in 1..Len(time_ranges) : time_ranges[i] = seg

\* C20: in every reachable state the session's current window and its
\* pending window are each none or a window of the store.
C20_ReferentialIntegrity ==
    InStore(current_segment) /\ InStore(waiting_next_segment)

\* C21: every end of media that makes the pending switch starts the window
\* find_active returns at that moment; a pending window that is no longer
\* active is not started.
C21_PendingRevalidated ==
    [][last' = <<"end_of_media", "switched">>
          => (/\ waiting_next_segment = find_active_segment
              /\ current_segment' = find_active_segment)]_vars

\* C22: in every reachable state with running false the session is cleared:
\* no window, empty playlist, index 0, no pending window.
C22_StoppedIsCleared ==
    ~running => /\ current_segment = None
                /\ current_playlist = <<>>
                /\ current_index = 0
                /\ waiting_next_segment = None

\* C22 witness: the run was stopped during an interrupt whose snapshot holds
\* a window that is active now, and the interrupt has since ended.
C22_Witness ==
    /\ ~running
    /\ last = <<"on_demand_finished", "not_running">>
    /\ interrupt_state # None
    /\ interrupt_state[1].seg # None
    /\ interrupt_state[1].seg = find_active_segment
    /\ interrupt_state[1].plist # <<>>

\* C23: in every reachable state with in_interrupt true the main player is
\* not playing.
C23_MainPlayerSilent == in_interrupt => player.state # "Playing"
=============================================================================
